---------------------------- MODULE Spec2Model ----------------------------
(***************************************************************************)
(* Model of scrape.py, the Ottawa pool schedule scraper.                   *)
(*                                                                         *)
(* Text is modelled as a sequence of one-character strings, so that the    *)
(* regular expressions and substring tests of the source are computed on   *)
(* characters, as the source computes them.  The parsing functions are     *)
(* operators; scrape_pool is a state machine over the page it is given.    *)
(***************************************************************************)
EXTENDS Integers, Sequences, FiniteSets, TLC

VARIABLES
    pc,             \* position of the function or of scrape_pool
    gen,            \* the structure the input text was written from (ghost)
    time_s,         \* parse_time_str: the argument s
    time_ret,       \* parse_time_str: the returned value
    cell_text,      \* parse_time_range: the argument cell_text
    results,        \* parse_time_range: the returned list
    table,          \* parse_from_table: the argument table
    col_to_day,     \* parse_from_table: the local col_to_day
    table_sessions, \* parse_from_table: the returned sessions
    raw_text,       \* parse_from_text: the argument raw_text
    header_idx,     \* parse_from_text: the local header_idx
    col_days,       \* parse_from_text: the local col_days, as day indices
    text_sessions,  \* parse_from_text: the returned sessions
    page,           \* scrape_pool: the page the browser holds
    wait_modes,     \* scrape_pool: the wait modes not tried yet
    loaded,         \* scrape_pool: the local loaded
    sessions,       \* scrape_pool: the local sessions
    candidates,     \* scrape_pool: the local candidates (sorted once built)
    tried,          \* scrape_pool: candidates handed to parse_from_text (ghost)
    text_calls,     \* scrape_pool: arguments of the parse_from_text calls (ghost)
    table_ran,      \* scrape_pool: strategy 1 was run (ghost)
    table_result    \* scrape_pool: what strategy 1 collected (ghost)

vars == <<pc, gen, time_s, time_ret, cell_text, results, table, col_to_day,
          table_sessions,
          raw_text, header_idx, col_days, text_sessions, page, wait_modes, loaded, sessions,
          candidates, tried, text_calls, table_ran, table_result>>

timeVars == <<time_s, time_ret>>
rangeVars == <<cell_text, results>>
tableVars == <<table, col_to_day, table_sessions>>
textVars == <<raw_text, header_idx, col_days, text_sessions>>
poolVars == <<page, wait_modes, loaded, sessions, candidates, tried,
              text_calls, table_ran, table_result>>

---------------------------------------------------------------------------
(* Characters and strings *)

NL == "\n"
TAB == "\t"
NBSP == "nbsp"          \* U+00A0
ENDASH == "endash"      \* U+2013
EMDASH == "emdash"      \* U+2014

LowerAlpha == <<"a","b","c","d","e","f","g","h","i","j","k","l","m",
                "n","o","p","q","r","s","t","u","v","w","x","y","z">>
UpperAlpha == <<"A","B","C","D","E","F","G","H","I","J","K","L","M",
                "N","O","P","Q","R","S","T","U","V","W","X","Y","Z">>
DigitChars == <<"0","1","2","3","4","5","6","7","8","9">>

IsDigit(c) == \E i \in 1..10 : DigitChars[i] = c
DigitVal(c) == (CHOOSE i \in 1..10 : DigitChars[i] = c) - 1
IsUpper(c) == \E i \in 1..26 : UpperAlpha[i] = c
IsLowerLetter(c) == \E i \in 1..26 : LowerAlpha[i] = c
\* str.isspace(), which is also the regex class \s on str patterns
IsSpace(c) == c \in {" ", TAB, NL, NBSP}
\* the regex class \w
IsWord(c) == IsDigit(c) \/ IsUpper(c) \/ IsLowerLetter(c) \/ c = "_"

LowerChar(c) == IF IsUpper(c) THEN LowerAlpha[CHOOSE i \in 1..26 : UpperAlpha[i] = c] ELSE c
\* str.lower()
Lower(s) == [i \in 1..Len(s) |-> LowerChar(s[i])]
\* str.replace(a, b) for single characters
ReplaceChar(s, a, b) == [i \in 1..Len(s) |-> IF s[i] = a THEN b ELSE s[i]]

\* str.strip()
Strip(s) ==
    LET nonsp == {i \in 1..Len(s) : ~IsSpace(s[i])}
    IN  IF nonsp = {} THEN <<>>
        ELSE LET lo == CHOOSE i \in nonsp : \A j \in nonsp : i <= j
                 hi == CHOOSE i \in nonsp : \A j \in nonsp : i >= j
             IN  SubSeq(s, lo, hi)

\* w occurs in s at position i
StartsWithAt(s, i, w) ==
    /\ i >= 1
    /\ i + Len(w) - 1 <= Len(s)
    /\ \A k \in 1..Len(w) : s[i + k - 1] = w[k]

\* the Python test  w in s
Contains(w, s) == \E i \in 1..(Len(s) + 1) : StartsWithAt(s, i, w)

\* first position at or after i that holds no whitespace (the regex \s*)
RECURSIVE SkipSpaces(_, _)
SkipSpaces(s, i) ==
    IF i <= Len(s) /\ IsSpace(s[i]) THEN SkipSpaces(s, i + 1) ELSE i

\* int() of a string of digits
RECURSIVE IntOf(_)
IntOf(ds) ==
    IF ds = <<>> THEN 0
    ELSE 10 * IntOf(SubSeq(ds, 1, Len(ds) - 1)) + DigitVal(ds[Len(ds)])

\* str(n) for 0 <= n <= 99
Digits(n) == IF n < 10 THEN <<DigitChars[n + 1]>>
             ELSE <<DigitChars[(n \div 10) + 1], DigitChars[(n % 10) + 1]>>
\* n as two digits, as a clock prints minutes
TwoDigits(n) == <<DigitChars[(n \div 10) + 1], DigitChars[(n % 10) + 1]>>

---------------------------------------------------------------------------
(* parse_time_str *)

None == -1

\* the regex (\d{1,2})(?::(\d{2}))?\s*(am|pm) matched at the start of t;
\* each quantifier is greedy and no shorter choice can match what follows
TimeMatch(t) ==
    LET nd == IF Len(t) >= 2 /\ IsDigit(t[1]) /\ IsDigit(t[2]) THEN 2
              ELSE IF Len(t) >= 1 /\ IsDigit(t[1]) THEN 1 ELSE 0
        p1 == nd + 1
        hasMin == /\ Len(t) >= p1 + 2
                  /\ t[p1] = ":"
                  /\ IsDigit(t[p1 + 1])
                  /\ IsDigit(t[p1 + 2])
        p2 == IF hasMin THEN p1 + 3 ELSE p1
        p3 == SkipSpaces(t, p2)
        ap == IF StartsWithAt(t, p3, <<"a","m">>) THEN "am"
              ELSE IF StartsWithAt(t, p3, <<"p","m">>) THEN "pm"
              ELSE "none"
    IN  [ok |-> nd > 0 /\ ap # "none",
         h |-> IF nd > 0 THEN IntOf(SubSeq(t, 1, nd)) ELSE 0,
         mn |-> IF hasMin THEN IntOf(SubSeq(t, p1 + 1, p1 + 2)) ELSE 0,
         ap |-> ap]

PmHour(h) == IF h # 12 THEN h + 12 ELSE h
AmHour(h) == IF h = 12 THEN 0 ELSE h

\* lines 48-55: the value of a match
MinutesOfMatch(m) ==
    IF ~m.ok THEN None
    ELSE (IF m.ap = "pm" THEN PmHour(m.h) ELSE AmHour(m.h)) * 60 + m.mn

parse_time_str(s) ==
    MinutesOfMatch(TimeMatch(
        ReplaceChar(ReplaceChar(Lower(Strip(s)), ENDASH, "-"), NBSP, " ")))

---------------------------------------------------------------------------
(* parse_time_range *)

NOON == <<"n","o","o","n">>
MIDNIGHT == <<"m","i","d","n","i","g","h","t">>
NoonRepl == <<"1","2",":","0","0"," ","p","m">>
MidnightRepl == <<"1","2",":","0","0"," ","a","m">>
NA == <<"n","/","a">>

\* \bword\b matches at position i of text, ignoring case
WordAt(text, i, word) ==
    /\ StartsWithAt(Lower(text), i, word)
    /\ (i = 1 \/ ~IsWord(text[i - 1]))
    /\ (i + Len(word) > Len(text) \/ ~IsWord(text[i + Len(word)]))

\* re.sub(r"\bword\b", repl, text, flags=re.I), scanning from position i
RECURSIVE SubWordFrom(_, _, _, _)
SubWordFrom(text, i, word, repl) ==
    IF i > Len(text) THEN <<>>
    ELSE IF WordAt(text, i, word)
         THEN repl \o SubWordFrom(text, i + Len(word), word, repl)
         ELSE <<text[i]>> \o SubWordFrom(text, i + 1, word, repl)

SubWord(text, word, repl) == SubWordFrom(text, 1, word, repl)

\* re.split(r"[,\n]+", text) without its empty strings, which the loop
\* skips: the maximal runs of characters other than comma and newline
RECURSIVE SplitParts(_, _)
SplitParts(text, cur) ==
    IF text = <<>> THEN (IF cur = <<>> THEN <<>> ELSE <<cur>>)
    ELSE IF Head(text) \in {",", NL}
         THEN (IF cur = <<>> THEN <<>> ELSE <<cur>>) \o SplitParts(Tail(text), <<>>)
         ELSE SplitParts(Tail(text), Append(cur, Head(text)))

\* [ap]m at position i, ignoring case
MarkerAt(s, i) ==
    /\ i + 1 <= Len(s)
    /\ LowerChar(s[i]) \in {"a", "p"}
    /\ LowerChar(s[i + 1]) = "m"

\* \d{1,2}(?::\d{2})? at position i: the position after it, or 0
ClockEnd(s, i) ==
    LET nd == IF i + 1 <= Len(s) /\ IsDigit(s[i]) /\ IsDigit(s[i + 1]) THEN 2
              ELSE IF i <= Len(s) /\ IsDigit(s[i]) THEN 1 ELSE 0
        p1 == i + nd
        hasMin == /\ p1 + 2 <= Len(s)
                  /\ s[p1] = ":"
                  /\ IsDigit(s[p1 + 1])
                  /\ IsDigit(s[p1 + 2])
    IN  IF nd = 0 THEN 0 ELSE IF hasMin THEN p1 + 3 ELSE p1

\* the range regex of parse_time_range matched at the start of part (re.I):
\* (\d{1,2}(?::\d{2})?(?:\s*[ap]m)?)\s*[-–]\s*(\d{1,2}(?::\d{2})?\s*[ap]m)
RangeMatch(part) ==
    LET c1 == ClockEnd(part, 1)
        m1 == SkipSpaces(part, c1)
        q1 == IF c1 > 0 /\ MarkerAt(part, m1) THEN m1 + 2 ELSE c1
        d == SkipSpaces(part, q1)
        hasDash == c1 > 0 /\ d <= Len(part) /\ part[d] \in {"-", ENDASH}
        g2 == SkipSpaces(part, d + 1)
        c2 == IF hasDash THEN ClockEnd(part, g2) ELSE 0
        m2 == SkipSpaces(part, c2)
        ok == hasDash /\ c2 > 0 /\ MarkerAt(part, m2)
    IN  [ok |-> ok,
         start_str |-> IF ok THEN SubSeq(part, 1, q1 - 1) ELSE <<>>,
         end_str |-> IF ok THEN SubSeq(part, g2, m2 + 1) ELSE <<>>]

\* re.search(r"[ap]m", s, re.I)
HasMarker(s) == \E i \in 1..Len(s) : MarkerAt(s, i)
FirstMarker(s) ==
    LET i == CHOOSE k \in 1..Len(s) :
                 MarkerAt(s, k) /\ \A j \in 1..(k - 1) : ~MarkerAt(s, j)
    IN  SubSeq(s, i, i + 1)

\* a start that is left as matched
StartWithMarker_NoInherit(start_str, end_str) == start_str

\* lines 76-79: a start without a marker takes the end's marker
StartWithMarker(start_str, end_str) ==
    IF ~HasMarker(start_str) /\ HasMarker(end_str)
    THEN start_str \o <<" ">> \o FirstMarker(end_str)
    ELSE start_str

\* lines 82-83
RangeOfTimes(start, end) ==
    IF start # None /\ end # None THEN <<[start |-> start, end |-> end]>> ELSE <<>>

\* lines 73-83
RangeOfMatch(m) ==
    IF ~m.ok THEN <<>>
    ELSE RangeOfTimes(parse_time_str(StartWithMarker(m.start_str, m.end_str)),
                      parse_time_str(m.end_str))

\* the body of the loop over the parts: the ranges one part contributes; an
\* empty part matches nothing
RangeOfPart(raw) == RangeOfMatch(RangeMatch(Strip(raw)))

RECURSIVE RangesOfParts(_)
RangesOfParts(parts) ==
    IF parts = <<>> THEN <<>>
    ELSE RangeOfPart(Head(parts)) \o RangesOfParts(Tail(parts))

NoSessionTexts == {NA, <<EMDASH>>, <<"-">>, <<>>}

\* a parse that does not split the cell: one range at most
RangesOfText_FirstOnly(text) ==
    IF text = <<>> \/ Lower(text) \in NoSessionTexts THEN <<>>
    ELSE RangesOfParts(
             <<SubWord(SubWord(text, NOON, NoonRepl), MIDNIGHT, MidnightRepl)>>)

\* lines 60-84, for the stripped text
RangesOfText(text) ==
    IF text = <<>> \/ Lower(text) \in NoSessionTexts THEN <<>>
    ELSE RangesOfParts(SplitParts(
             SubWord(SubWord(text, NOON, NoonRepl), MIDNIGHT, MidnightRepl), <<>>))

parse_time_range(ct) == RangesOfText(Strip(ct))

---------------------------------------------------------------------------
(* Inputs of parse_time_str: a clock token written from an hour, a minute  *)
(* and a marker.                                                           *)

MaxHour == 13
Minutes == {0, 30, 59, 75}
AM == <<"a","m">>
PM == <<"p","m">>
Markers == {<<>>, AM, PM, <<"A","M">>, <<"P","m">>, <<"a">>}
Gaps == {<<>>, <<" ">>, <<NBSP>>}

\* the text of a clock token: hour, optional :MM, gap, marker
TimeText(h, withMin, mn, gap, ap) ==
    Digits(h) \o (IF withMin THEN <<":">> \o TwoDigits(mn) ELSE <<>>) \o gap \o ap

TimeTokens ==
    {[h |-> h, withMin |-> w, mn |-> IF w THEN mn ELSE 0, gap |-> g, ap |-> a] :
        h \in 0..MaxHour, w \in BOOLEAN, mn \in Minutes, g \in Gaps, a \in Markers}

\* the variables of the functions a specification does not call
TimeIdle == time_s = <<>> /\ time_ret = None
RangeIdle == cell_text = <<>> /\ results = <<>>
TableIdle == table = <<>> /\ col_to_day = <<>> /\ table_sessions = <<>>
TextIdle ==
    raw_text = <<>> /\ header_idx = None /\ col_days = <<>> /\ text_sessions = <<>>
PoolIdle ==
    /\ page = <<>> /\ wait_modes = <<>> /\ loaded = FALSE /\ sessions = <<>>
    /\ candidates = <<>> /\ tried = <<>> /\ text_calls = <<>>
    /\ table_ran = FALSE /\ table_result = <<>>

TimeStrInit ==
    /\ pc = "call"
    /\ gen \in TimeTokens
    /\ time_s = TimeText(gen.h, gen.withMin, gen.mn, gen.gap, gen.ap)
    /\ time_ret = None
    /\ RangeIdle /\ TableIdle /\ TextIdle /\ PoolIdle

ParseTimeStr ==
    /\ pc = "call"
    /\ time_ret' = parse_time_str(time_s)
    /\ pc' = "done"
    /\ UNCHANGED <<gen, time_s, rangeVars, tableVars, textVars, poolVars>>

TimeStrNext == ParseTimeStr

SpecTimeStr == TimeStrInit /\ [][TimeStrNext]_vars

\* the minutes of a clock time as the schedule means it: 12 am is 0, 12 pm is
\* 12 and h pm is h+12 for h in 1..11
RefMinutes(h, mn, ap) ==
    (IF ap = PM THEN (IF h = 12 THEN 12 ELSE h + 12)
     ELSE (IF h = 12 THEN 0 ELSE h)) * 60 + mn

\* C5: every value parse_time_str returns is hour*60+minute after the am/pm
\* conversion and lies in 0..1439
C5_TimeStrInDay ==
    (pc = "done" /\ time_ret # None) =>
        /\ time_ret \in 0..1439
        /\ gen.h \in 1..12 =>
              time_ret = RefMinutes(gen.h, gen.mn, Lower(gen.ap))

---------------------------------------------------------------------------
(* Inputs of parse_time_range: a cell written from range tokens.  A token  *)
(* is START dash END; an endpoint is a clock time (mn = -1: no minutes,    *)
(* ap = <<>>: no marker) or a word standing for a clock time.              *)

MaxParts == 2

Endpoint(h, mn, ap, word) == [h |-> h, mn |-> mn, ap |-> ap, word |-> word]

EndpointText(e) ==
    IF e.word # <<>> THEN e.word
    ELSE Digits(e.h) \o (IF e.mn >= 0 THEN <<":">> \o TwoDigits(e.mn) ELSE <<>>)
                      \o (IF e.ap = <<>> THEN <<>> ELSE <<" ">> \o e.ap)

RangePart(s, dash, e) ==
    [wf |-> TRUE, s |-> s, e |-> e,
     text |-> EndpointText(s) \o dash \o EndpointText(e)]

NoEndpoint == Endpoint(0, -1, <<>>, <<>>)
BadPart(text) == [wf |-> FALSE, s |-> NoEndpoint, e |-> NoEndpoint, text |-> text]

RangeHours == {1, 9, 11, 12}
StartEndpoints ==
    {Endpoint(h, mn, ap, <<>>) : h \in RangeHours, mn \in {-1, 30}, ap \in {<<>>, AM, PM}}
EndEndpoints ==
    {Endpoint(h, mn, ap, <<>>) :
        h \in RangeHours, mn \in {-1, 30}, ap \in {AM, PM, <<"P","M">>}}
Dashes == {<<"-">>, <<" ","-"," ">>, <<" ",ENDASH," ">>}

\* one token per cell, every shape of range
SingleParts == {RangePart(s, d, e) : s \in StartEndpoints, d \in Dashes, e \in EndEndpoints}

\* the tokens of the cells of several tokens: ranges that touch and overlap,
\* and tokens that are no range
PartPool ==
    { RangePart(Endpoint(9, 30, <<>>, <<>>), <<" ","-"," ">>, Endpoint(11, -1, AM, <<>>)),
      RangePart(Endpoint(4, 30, <<>>, <<>>), <<" ","-"," ">>, Endpoint(9, -1, PM, <<>>)),
      RangePart(Endpoint(11, -1, AM, <<>>), <<"-">>, Endpoint(1, -1, PM, <<>>)),
      RangePart(Endpoint(12, 0, PM, <<"N","o","o","n">>), <<" ","-"," ">>,
                Endpoint(1, -1, PM, <<>>)),
      BadPart(<<"c","l","o","s","e","d">>),
      BadPart(<<"9"," ","a","m">>),
      BadPart(<<"9"," ","-"," ","1","1">>),
      BadPart(NA) }
Seps == {<<",">>, <<","," ">>, <<NL>>}
NoSessionCells == {<<>>, NA, <<"N","/","A">>, <<"-">>, <<EMDASH>>, <<" ">>}

RangeCells ==
    {[parts |-> <<p>>, sep |-> <<",">>, lit |-> <<>>] : p \in SingleParts}
    \cup {[parts |-> ps, sep |-> sep, lit |-> <<>>] :
            ps \in UNION {[1..n -> PartPool] : n \in 1..MaxParts}, sep \in Seps}
    \cup {[parts |-> <<>>, sep |-> <<",">>, lit |-> c] : c \in NoSessionCells}

RECURSIVE JoinParts(_, _)
JoinParts(parts, sep) ==
    IF parts = <<>> THEN <<>>
    ELSE IF Len(parts) = 1 THEN parts[1].text
    ELSE parts[1].text \o sep \o JoinParts(Tail(parts), sep)

CellText(g) == IF g.parts = <<>> THEN g.lit ELSE JoinParts(g.parts, g.sep)

RangeInit ==
    /\ pc = "call"
    /\ gen \in RangeCells
    /\ cell_text = CellText(gen)
    /\ results = <<>>
    /\ TimeIdle /\ TableIdle /\ TextIdle /\ PoolIdle

ParseTimeRange ==
    /\ pc = "call"
    /\ results' = parse_time_range(cell_text)
    /\ pc' = "done"
    /\ UNCHANGED <<gen, cell_text, timeVars, tableVars, textVars, poolVars>>

RangeNext == ParseTimeRange

SpecRange == RangeInit /\ [][RangeNext]_vars

\* the marker an endpoint is read with: its own, or the end's when it has none
EndpointMinutes(e, ap) ==
    RefMinutes(e.h, IF e.mn < 0 THEN 0 ELSE e.mn, Lower(IF e.ap = <<>> THEN ap ELSE e.ap))

ExpectedRange(p) ==
    [start |-> EndpointMinutes(p.s, p.e.ap), end |-> EndpointMinutes(p.e, p.e.ap)]

RECURSIVE ExpectedRanges(_)
ExpectedRanges(parts) ==
    IF parts = <<>> THEN <<>>
    ELSE (IF Head(parts).wf THEN <<ExpectedRange(Head(parts))>> ELSE <<>>)
         \o ExpectedRanges(Tail(parts))

\* C7: a START without a marker is read with END's marker, a START with a
\* marker is read with its own, and the pair is emitted as parsed, with no
\* swap when end <= start
C7_StartInheritsMarker ==
    (pc = "done" /\ Len(gen.parts) = 1 /\ gen.parts[1].wf) =>
        results = <<ExpectedRange(gen.parts[1])>>

C7_Witness ==
    /\ pc = "done"
    /\ Len(gen.parts) = 1 /\ gen.parts[1].wf
    /\ gen.parts[1].s.ap = <<>>
    /\ gen.parts[1].e.ap = PM
    /\ Len(results) = 1
    /\ results[1].start >= 720
    /\ results[1].end <= results[1].start

\* C9: the result is exactly the ranges of the well-formed tokens, in input
\* order, one pair per token; a cell that is empty, n/a, - or an em-dash
\* gives the empty sequence
C9_RangesOfWellFormedTokens ==
    pc = "done" => results = ExpectedRanges(gen.parts)

C9_Witness ==
    /\ pc = "done"
    /\ Len(gen.parts) >= 2
    /\ ~gen.parts[1].wf
    /\ gen.parts[2].wf
    /\ Len(results) = 1

C9_WitnessUnmerged ==
    /\ pc = "done"
    /\ Len(results) = 2
    /\ results[1].end = results[2].start

---------------------------------------------------------------------------
(* parse_from_table *)

DAYS == << <<"S","u","n","d","a","y">>,
           <<"M","o","n","d","a","y">>,
           <<"T","u","e","s","d","a","y">>,
           <<"W","e","d","n","e","s","d","a","y">>,
           <<"T","h","u","r","s","d","a","y">>,
           <<"F","r","i","d","a","y">>,
           <<"S","a","t","u","r","d","a","y">> >>
\* DAY_INDEX[DAYS[d]], for d a position of DAYS
DAY_INDEX(d) == d - 1

PUBLIC_SWIM_KEYWORDS == { <<"p","u","b","l","i","c"," ","s","w","i","m">>,
                          <<"w","a","v","e"," ","s","w","i","m">> }
PLAY_FREE == <<"p","l","a","y"," ","f","r","e","e">>
PLAY_FREE_NOTE == <<"(">> \o PLAY_FREE \o <<")">>

\* any(k in text.lower() for k in PUBLIC_SWIM_KEYWORDS)
HasKeyword(text) == \E k \in PUBLIC_SWIM_KEYWORDS : Contains(k, Lower(text))

\* the days whose name is in the header cell h, ignoring case
DaysIn(h) == {d \in 1..7 : Contains(Lower(DAYS[d]), Lower(h))}

\* a loop without the break: the last day found in h stays
FirstDayIn_Last(h) == CHOOSE d \in DaysIn(h) : \A e \in DaysIn(h) : d >= e

\* lines 97-100: the first day of DAY_INDEX found in h ends the inner loop
FirstDayIn(h) == CHOOSE d \in DaysIn(h) : \A e \in DaysIn(h) : d <= e

\* lines 95-100: the dict col_to_day as its items in insertion order, which
\* is the order of the columns
RECURSIVE ColToDayFrom(_, _)
ColToDayFrom(header_texts, i) ==
    IF i > Len(header_texts) THEN <<>>
    ELSE (IF DaysIn(header_texts[i]) # {}
          THEN <<[col |-> i - 1, day |-> DAY_INDEX(FirstDayIn(header_texts[i]))]>>
          ELSE <<>>)
         \o ColToDayFrom(header_texts, i + 1)

ColToDay(header_texts) == ColToDayFrom(header_texts, 1)

\* the end of the match of __.*?__ at position i, or 0: the nearest later
\* __ with no newline before it
UnderEnd(text, i) ==
    LET closes == {j \in (i + 2)..(Len(text) - 1) :
                      /\ StartsWithAt(text, j, <<"_","_">>)
                      /\ \A k \in (i + 2)..(j - 1) : text[k] # NL}
    IN  IF StartsWithAt(text, i, <<"_","_">>) /\ closes # {}
        THEN (CHOOSE j \in closes : \A k \in closes : j <= k) + 2
        ELSE 0

\* re.sub(r"__.*?__|\(play free\)", "", text, flags=re.I), from position i
RECURSIVE CleanFrom(_, _)
CleanFrom(text, i) ==
    IF i > Len(text) THEN <<>>
    ELSE IF UnderEnd(text, i) > 0 THEN CleanFrom(text, UnderEnd(text, i))
    ELSE IF StartsWithAt(Lower(text), i, PLAY_FREE_NOTE)
         THEN CleanFrom(text, i + Len(PLAY_FREE_NOTE))
    ELSE <<text[i]>> \o CleanFrom(text, i + 1)

CleanCell(text) == Strip(CleanFrom(text, 1))

\* "play free" in text.lower()
PlayFree(text) == Contains(PLAY_FREE, Lower(text))

RECURSIVE SessionsOfRanges(_, _, _, _)
SessionsOfRanges(trs, day_idx, row_label, play_free) ==
    IF trs = <<>> THEN <<>>
    ELSE <<[day |-> day_idx, label |-> row_label, start |-> Head(trs).start,
            end |-> Head(trs).end, playFree |-> play_free]>>
         \o SessionsOfRanges(Tail(trs), day_idx, row_label, play_free)

\* lines 111-120: the sessions of one mapped column of a row
TableCellSessions(cells, row_label, cd) ==
    IF cd.col >= Len(cells) THEN <<>>
    ELSE SessionsOfRanges(parse_time_range(CleanCell(Strip(cells[cd.col + 1]))),
                          cd.day, row_label, PlayFree(Strip(cells[cd.col + 1])))

RECURSIVE TableRowCols(_, _, _)
TableRowCols(cells, row_label, c2d) ==
    IF c2d = <<>> THEN <<>>
    ELSE TableCellSessions(cells, row_label, Head(c2d))
         \o TableRowCols(cells, row_label, Tail(c2d))

\* lines 104-120: the sessions of one row
TableRowSessions(cells, c2d) ==
    IF cells = <<>> THEN <<>>
    ELSE IF ~HasKeyword(Strip(cells[1])) THEN <<>>
    ELSE TableRowCols(cells, Strip(cells[1]), c2d)

RECURSIVE TableRows(_, _)
TableRows(rows, c2d) ==
    IF rows = <<>> THEN <<>>
    ELSE TableRowSessions(Head(rows), c2d) \o TableRows(Tail(rows), c2d)

\* header_texts of line 94
HeaderTexts(tb) == [i \in 1..Len(tb.header) |-> Strip(tb.header[i])]

\* lines 101-121
TableSessionsWith(tb, c2d) == IF c2d = <<>> THEN <<>> ELSE TableRows(tb.rows, c2d)

parse_from_table(tb) ==
    IF tb.header = <<>> THEN <<>> ELSE TableSessionsWith(tb, ColToDay(HeaderTexts(tb)))

---------------------------------------------------------------------------
(* Inputs of parse_from_table: what the two queries of a table give, the   *)
(* header cells and the rows of cells.                                     *)

MaxCols == 3
MaxRows == 1

W_PublicSwim == <<"P","u","b","l","i","c"," ","S","w","i","m">>
W_WaveSwim == <<"W","a","v","e"," ","S","w","i","m">>
W_LaneSwim == <<"L","a","n","e"," ","S","w","i","m">>
W_Activity == <<"A","c","t","i","v","i","t","y">>
W_PlayFreeNote == <<" ","(","P","l","a","y"," ","F","r","e","e",")">>
W_Midnight == <<"m","i","d","n","i","g","h","t">>

\* a header cell and the days (0 = Sunday) its text names
HeaderCell(text, days) == [text |-> text, days |-> days]
HeaderPool ==
    { HeaderCell(W_Activity, {}),
      HeaderCell(DAYS[1], {0}),
      HeaderCell(<<" ","M","O","N","D","A","Y">>, {1}),
      HeaderCell(DAYS[7] \o <<" ","&"," ">> \o DAYS[1], {0, 6}) }

T_9_11am == <<"9"," ","-"," ","1","1"," ","a","m">>
T_1_2pm == <<"1"," ","-"," ","2"," ","p","m">>
T_430_9pm == <<"4",":","3","0"," ","-"," ","9"," ","p","m">>
T_6_7am == <<"6"," ","-"," ","7"," ","a","m">>
T_9pm_midnight == <<"9"," ","p","m"," ","-"," ">> \o W_Midnight

RowPool ==
    { <<W_PublicSwim, T_9_11am, T_1_2pm \o W_PlayFreeNote, NA>>,
      <<W_WaveSwim \o W_PlayFreeNote, T_9pm_midnight>>,
      <<W_LaneSwim, T_6_7am, T_6_7am, T_6_7am>>,
      <<Lower(W_PublicSwim), <<"_","_","F","u","n","_","_"," ">> \o T_430_9pm, <<>>,
        <<"N","o","o","n"," ","-"," ","1"," ","p","m",",">> \o T_430_9pm>>,
      <<>> }

SeqsUpTo(S, n) == UNION {[1..k -> S] : k \in 0..n}

TableGens ==
    {[header |-> h, rows |-> r] :
        h \in SeqsUpTo(HeaderPool, MaxCols), r \in SeqsUpTo(RowPool, MaxRows)}

TableOf(g) ==
    [header |-> [i \in 1..Len(g.header) |-> g.header[i].text], rows |-> g.rows]

TableInit ==
    /\ pc = "header"
    /\ gen \in TableGens
    /\ table = TableOf(gen)
    /\ col_to_day = <<>>
    /\ table_sessions = <<>>
    /\ TimeIdle /\ RangeIdle /\ TextIdle /\ PoolIdle

\* lines 88-102: the header cells and the column map
BuildColToDay ==
    /\ pc = "header"
    /\ col_to_day' = IF table.header = <<>> THEN <<>> ELSE ColToDay(HeaderTexts(table))
    /\ pc' = IF table.header = <<>> \/ col_to_day' = <<>> THEN "done" ELSE "rows"
    /\ UNCHANGED <<gen, table, table_sessions, timeVars, rangeVars, textVars, poolVars>>

\* lines 103-121: the rows
ParseTableRows ==
    /\ pc = "rows"
    /\ table_sessions' = TableRows(table.rows, col_to_day)
    /\ pc' = "done"
    /\ UNCHANGED <<gen, table, col_to_day, timeVars, rangeVars, textVars, poolVars>>

TableNext == BuildColToDay \/ ParseTableRows

SpecTable == TableInit /\ [][TableNext]_vars

MinOf(S) == CHOOSE x \in S : \A y \in S : x <= y

\* the entries of col_to_day for the column index c
EntriesOf(c) == {k \in 1..Len(col_to_day) : col_to_day[k].col = c}

\* C8: column i maps to day d exactly when d is the first day, Sunday to
\* Saturday, named in header cell i; a cell naming no day is absent; repeated
\* names map independently; an empty map gives no sessions
C8_ColumnMap ==
    pc \in {"rows", "done"} =>
        /\ \A i \in 1..Len(gen.header) :
              IF gen.header[i].days = {} THEN EntriesOf(i - 1) = {}
              ELSE \E k \in 1..Len(col_to_day) :
                      /\ EntriesOf(i - 1) = {k}
                      /\ col_to_day[k].day = MinOf(gen.header[i].days)
        /\ \A k \in 1..Len(col_to_day) : col_to_day[k].col \in 0..(Len(gen.header) - 1)
        /\ (pc = "done" /\ col_to_day = <<>>) => table_sessions = <<>>

C8_Witness ==
    /\ pc = "done"
    /\ \E i \in 1..Len(gen.header) : gen.header[i].days = {0, 6}
    /\ \E i \in 1..Len(gen.header) : gen.header[i].days = {}
    /\ \E j, k \in 1..Len(col_to_day) : j # k /\ col_to_day[j].day = col_to_day[k].day
    /\ table_sessions # <<>>

C8_WitnessEmptyMap ==
    /\ pc = "done"
    /\ Len(gen.header) >= 2
    /\ col_to_day = <<>>
    /\ \E r \in 1..Len(gen.rows) : gen.rows[r] # <<>> /\ HasKeyword(gen.rows[r][1])

\* C6: every emitted session has day in 0..6, 0 <= start < 1440 and
\* 0 < end <= 1440, a range ending at midnight included
C6_SessionWithinDay ==
    \A k \in 1..Len(table_sessions) :
        /\ table_sessions[k].day \in 0..6
        /\ table_sessions[k].start \in 0..1439
        /\ table_sessions[k].end \in 1..1440

---------------------------------------------------------------------------
(* parse_from_text *)

\* the position of the first newline at or after i, Len(text)+1 without one
NextNL(text, i) ==
    IF \A j \in i..Len(text) : text[j] # NL THEN Len(text) + 1
    ELSE CHOOSE j \in i..Len(text) :
             text[j] = NL /\ \A k \in i..(j - 1) : text[k] # NL

\* raw_text.split("\n"), from position i
RECURSIVE SplitLines(_, _)
SplitLines(text, i) ==
    IF NextNL(text, i) > Len(text) THEN <<SubSeq(text, i, Len(text))>>
    ELSE <<SubSeq(text, i, NextNL(text, i) - 1)>> \o SplitLines(text, NextNL(text, i) + 1)

RECURSIVE StripNonEmpty(_)
StripNonEmpty(ls) ==
    IF ls = <<>> THEN <<>>
    ELSE (IF Strip(Head(ls)) # <<>> THEN <<Strip(Head(ls))>> ELSE <<>>)
         \o StripNonEmpty(Tail(ls))

\* line 130
LinesOf(text) == StripNonEmpty(SplitLines(text, 1))

\* lines 136-139: found, the days of DAYS named in the line, in the order of
\* the loop over DAYS
RECURSIVE FoundFrom(_, _)
FoundFrom(line, d) ==
    IF d > 7 THEN <<>>
    ELSE (IF Contains(Lower(DAYS[d]), Lower(line)) THEN <<DAY_INDEX(d)>> ELSE <<>>)
         \o FoundFrom(line, d + 1)

Found(line) == FoundFrom(line, 1)

\* lines 135-144: the index (from 0) of the first line naming 3 days or
\* more, None when there is none
FirstOf(hs) == IF hs = {} THEN None ELSE (CHOOSE i \in hs : \A j \in hs : i <= j) - 1

HeaderIdx(lines) == FirstOf({i \in 1..Len(lines) : Len(Found(lines[i])) >= 3})

\* line 142: col_days for the header at index hi
ColDaysAt(lines, hi) == IF hi = None THEN <<>> ELSE Found(lines[hi + 1])

\* the position after the run of tabs at i
RECURSIVE SkipTabs(_, _)
SkipTabs(s, i) == IF i <= Len(s) /\ s[i] = TAB THEN SkipTabs(s, i + 1) ELSE i

\* re.split(r"\t+|\s{2,}", line): at a tab the first alternative takes the
\* run of tabs; at other whitespace the second takes the whole run when it
\* is 2 or more long
RECURSIVE SplitColsFrom(_, _, _)
SplitColsFrom(line, i, cur) ==
    IF i > Len(line) THEN <<cur>>
    ELSE IF line[i] = TAB
         THEN <<cur>> \o SplitColsFrom(line, SkipTabs(line, i), <<>>)
    ELSE IF IsSpace(line[i]) /\ i + 1 <= Len(line) /\ IsSpace(line[i + 1])
         THEN <<cur>> \o SplitColsFrom(line, SkipSpaces(line, i), <<>>)
    ELSE SplitColsFrom(line, i + 1, Append(cur, line[i]))

SplitCols(line) == SplitColsFrom(line, 1, <<>>)


\* lines 160-167: the sessions of the row for the days from the j-th (from 0)
RECURSIVE TextRowCols(_, _, _, _)
TextRowCols(line, parts, cds, j) ==
    IF j >= Len(cds) THEN <<>>
    ELSE (IF j + 1 < Len(parts)
          THEN SessionsOfRanges(parse_time_range(CleanCell(parts[j + 2])),
                                cds[j + 1], Strip(parts[1]),
                                PlayFree(line))
          ELSE <<>>)
         \o TextRowCols(line, parts, cds, j + 1)

\* lines 152-167: the sessions of one line after the header
TextRowOfParts(line, parts, cds) ==
    IF Len(parts) < 2 THEN <<>> ELSE TextRowCols(line, parts, cds, 0)

TextRowSessions(line, cds) ==
    IF ~HasKeyword(line) THEN <<>> ELSE TextRowOfParts(line, SplitCols(line), cds)

RECURSIVE TextRows(_, _)
TextRows(lines, cds) ==
    IF lines = <<>> THEN <<>>
    ELSE TextRowSessions(Head(lines), cds) \o TextRows(Tail(lines), cds)

\* line 151: the loop over lines[header_idx + 1:]
TextRowsAfter(lines, hi, cds) == TextRows(SubSeq(lines, hi + 2, Len(lines)), cds)

\* lines 146-168, for the header at index hi
TextSessionsAt(lines, hi) ==
    IF hi = None THEN <<>> ELSE TextRowsAfter(lines, hi, ColDaysAt(lines, hi))

TextSessionsOf(lines) == TextSessionsAt(lines, HeaderIdx(lines))

parse_from_text(text) == TextSessionsOf(LinesOf(text))

---------------------------------------------------------------------------
(* Inputs of parse_from_text: lines written from a header of day names and *)
(* rows of a label and cells.                                              *)

MaxTextRows == 2

P_9_10am == RangePart(Endpoint(9, -1, <<>>, <<>>), <<" ","-"," ">>, Endpoint(10, -1, AM, <<>>))
P_1_2pm == RangePart(Endpoint(1, -1, <<>>, <<>>), <<" ","-"," ">>, Endpoint(2, -1, PM, <<>>))
P_3_4pm == RangePart(Endpoint(3, -1, <<>>, <<>>), <<" ","-"," ">>, Endpoint(4, -1, PM, <<>>))
P_6_7pm == RangePart(Endpoint(6, -1, <<>>, <<>>), <<" ","-"," ">>, Endpoint(7, -1, PM, <<>>))
P_7_8pm == RangePart(Endpoint(7, -1, <<>>, <<>>), <<"-">>, Endpoint(8, -1, PM, <<>>))

\* a cell of a row: its text, whether it carries the play free note, and the
\* ranges written in it
TextCell(part, pf) ==
    [text |-> part.text \o (IF pf THEN W_PlayFreeNote ELSE <<>>),
     pf |-> pf,
     ranges |-> ExpectedRanges(<<part>>)]

TextRow(label, kw, sep, cells) == [label |-> label, kw |-> kw, sep |-> sep, cells |-> cells]

TextRowPool ==
    { TextRow(W_PublicSwim, TRUE, <<" "," ">>,
              <<TextCell(P_9_10am, FALSE), TextCell(P_1_2pm, FALSE), TextCell(P_3_4pm, FALSE)>>),
      TextRow(W_WaveSwim, TRUE, <<TAB>>,
              <<TextCell(P_6_7pm, TRUE), TextCell(P_7_8pm, FALSE)>>),
      TextRow(W_LaneSwim, FALSE, <<" "," ">>, <<TextCell(P_9_10am, FALSE)>>),
      TextRow(W_PublicSwim, TRUE, <<" "," ">>, <<>>),
      TextRow(W_PublicSwim \o W_PlayFreeNote, TRUE, <<" "," "," ">>,
              <<TextCell(BadPart(NA), FALSE), TextCell(P_1_2pm, FALSE)>>),
      TextRow(DAYS[1], FALSE, <<" "," ">>,
              <<TextCell(BadPart(DAYS[2]), FALSE), TextCell(BadPart(DAYS[3]), FALSE)>>) }

RECURSIVE JoinCells(_, _)
JoinCells(cells, sep) ==
    IF cells = <<>> THEN <<>> ELSE sep \o Head(cells).text \o JoinCells(Tail(cells), sep)

RowText(r) == r.label \o JoinCells(r.cells, r.sep)

\* the header line naming the days ds (0 = Sunday) from left to right
RECURSIVE HeaderLine(_)
HeaderLine(ds) ==
    IF ds = <<>> THEN <<>>
    ELSE IF Len(ds) = 1 THEN DAYS[ds[1] + 1]
    ELSE DAYS[ds[1] + 1] \o <<" "," ">> \o HeaderLine(Tail(ds))

HeaderDays == {0, 1, 2}
HeaderOrders ==
    {ds \in [1..3 -> HeaderDays] : \A i, j \in 1..3 : i # j => ds[i] # ds[j]} \cup {<<>>}

\* the lines before the header: none, a line naming two days, a row
PreLines == { <<>>, <<HeaderLine(<<6, 0>>)>>,
              <<W_PublicSwim \o <<" "," ">> \o P_9_10am.text>> }

TextGens ==
    {[pre |-> p, days |-> ds, rows |-> rs] :
        p \in PreLines, ds \in HeaderOrders, rs \in SeqsUpTo(TextRowPool, MaxTextRows)}

RECURSIVE JoinLines(_)
JoinLines(ls) ==
    IF ls = <<>> THEN <<>>
    ELSE IF Len(ls) = 1 THEN ls[1]
    ELSE ls[1] \o <<NL>> \o JoinLines(Tail(ls))

TextOf(g) ==
    JoinLines(g.pre \o (IF g.days = <<>> THEN <<>> ELSE <<HeaderLine(g.days)>>)
                    \o [i \in 1..Len(g.rows) |-> RowText(g.rows[i])])

TextInit ==
    /\ pc = "header"
    /\ gen \in TextGens
    /\ raw_text = TextOf(gen)
    /\ header_idx = None
    /\ col_days = <<>>
    /\ text_sessions = <<>>
    /\ TimeIdle /\ RangeIdle /\ TableIdle /\ PoolIdle

\* lines 129-148: the lines and the header row
FindHeader ==
    /\ pc = "header"
    /\ header_idx' = HeaderIdx(LinesOf(raw_text))
    /\ col_days' = ColDaysAt(LinesOf(raw_text), header_idx')
    /\ pc' = IF header_idx' = None THEN "done" ELSE "rows"
    /\ UNCHANGED <<gen, raw_text, text_sessions, timeVars, rangeVars, tableVars, poolVars>>

\* lines 150-168: the rows after the header
ParseTextRows ==
    /\ pc = "rows"
    /\ text_sessions' = TextRowsAfter(LinesOf(raw_text), header_idx, col_days)
    /\ pc' = "done"
    /\ UNCHANGED <<gen, raw_text, header_idx, col_days, timeVars, rangeVars,
                   tableVars, poolVars>>

TextNext == FindHeader \/ ParseTextRows

SpecText == TextInit /\ [][TextNext]_vars

\* the sessions of a row when token j+1 goes to the j-th day of ds; what is
\* kept of a session is chosen by keep
RECURSIVE ExpectedOfRanges(_, _, _, _)
ExpectedOfRanges(rs, day, pf, keep) ==
    IF rs = <<>> THEN <<>>
    ELSE <<IF keep = "flag" THEN pf
           ELSE [day |-> day, start |-> Head(rs).start, end |-> Head(rs).end]>>
         \o ExpectedOfRanges(Tail(rs), day, pf, keep)

RECURSIVE ExpectedOfCells(_, _, _, _)
ExpectedOfCells(cells, ds, j, keep) ==
    IF j > Len(ds) \/ j > Len(cells) THEN <<>>
    ELSE ExpectedOfRanges(cells[j].ranges, ds[j], cells[j].pf, keep)
         \o ExpectedOfCells(cells, ds, j + 1, keep)

RECURSIVE ExpectedOfRows(_, _, _)
ExpectedOfRows(rows, ds, keep) ==
    IF rows = <<>> THEN <<>>
    ELSE (IF Head(rows).kw THEN ExpectedOfCells(Head(rows).cells, ds, 1, keep) ELSE <<>>)
         \o ExpectedOfRows(Tail(rows), ds, keep)

\* C3: the header is the first line naming 3 days; col_days lists its days
\* from left to right; token j+1 of a keyword row goes to the j-th of them
C3_DaysInOrderOfAppearance ==
    (pc \in {"rows", "done"} /\ gen.days # <<>>) =>
        /\ header_idx = Len(gen.pre)
        /\ col_days = gen.days
        /\ pc = "done" =>
              [k \in 1..Len(text_sessions) |->
                  [day |-> text_sessions[k].day, start |-> text_sessions[k].start,
                   end |-> text_sessions[k].end]]
              = ExpectedOfRows(gen.rows, gen.days, "range")

\* C4: a session has playFree exactly when the cell it was parsed from
\* contains "play free"
C4_PlayFreePerCell ==
    (pc = "done" /\ gen.days # <<>>) =>
        [k \in 1..Len(text_sessions) |-> text_sessions[k].playFree]
        = ExpectedOfRows(gen.rows, gen.days, "flag")

---------------------------------------------------------------------------
(* The page scrape_pool reads.  The page holds handles: the tables found   *)
(* by query_selector_all("table"), the elements the loop over the          *)
(* selectors visits, in the order it visits them (an element that matches  *)
(* several selectors is visited once for each), and the body.  inner_text  *)
(* gives the text of a handle.                                             *)

MaxElements == 4

W_Sched == HeaderLine(<<0, 1, 2>>) \o <<NL>> \o W_PublicSwim \o <<" "," ">> \o P_9_10am.text
W_Notice == W_PublicSwim \o <<" ","i","s"," ","c","l","o","s","e","d"," ","o","n"," ">>
            \o HeaderLine(<<0, 1>>) \o <<" ","a","n","d"," ">> \o DAYS[7]
W_Hours == <<"H","o","u","r","s">>
W_WaveSched == HeaderLine(<<0, 1, 2>>) \o <<NL>> \o W_WaveSwim \o <<TAB>> \o P_1_2pm.text

\* el.inner_text() of an element or of the body
InnerText(el) ==
    CASE el = "label" -> W_PublicSwim
      [] el = "sched" -> W_Sched
      [] el = "notice" -> W_Notice
      [] el = "hours" -> W_Hours
      [] el = "wavesched" -> W_WaveSched

\* what the queries of parse_from_table give for a table
TableCells(tb) ==
    CASE tb = "swim" -> [header |-> <<W_Activity, DAYS[1], DAYS[2]>>,
                         rows |-> <<<<W_PublicSwim, T_9_11am, T_1_2pm>>>>]
      [] tb = "wave" -> [header |-> <<W_Activity, DAYS[7]>>,
                         rows |-> <<<<W_WaveSwim, T_430_9pm>>>>]
      [] tb = "lane" -> [header |-> <<W_Activity, DAYS[2]>>,
                         rows |-> <<<<W_LaneSwim, T_6_7am>>>>]
      [] tb = "gym" -> [header |-> <<W_Hours, DAYS[2]>>,
                        rows |-> <<<<<<"G","y","m">>, T_6_7am>>>>]

RECURSIVE JoinWith(_, _)
JoinWith(ts, sep) ==
    IF ts = <<>> THEN <<>>
    ELSE IF Len(ts) = 1 THEN ts[1]
    ELSE ts[1] \o sep \o JoinWith(Tail(ts), sep)

\* table.inner_text(): the cells of a row parted by tabs, the rows by newlines
TableText(tb) ==
    LET c == TableCells(tb)
    IN  JoinWith(<<JoinWith(c.header, <<TAB>>)>>
                 \o [r \in 1..Len(c.rows) |-> JoinWith(c.rows[r], <<TAB>>)], <<NL>>)

\* page.content(): the markup holds the text of every table and element
Html(pg) ==
    JoinWith([i \in 1..Len(pg.tables) |-> TableText(pg.tables[i])]
             \o [i \in 1..Len(pg.elements) |-> InnerText(pg.elements[i])]
             \o <<InnerText(pg.body)>>, <<"<","b","r",">">>)

PageTables == {<<>>, <<"gym", "lane">>, <<"wave">>, <<"lane", "swim", "wave">>}
ElementPool == {"label", "sched", "notice", "hours"}
Bodies == {"hours", "wavesched"}

Pages ==
    {[tables |-> ts, elements |-> es, body |-> b] :
        ts \in PageTables, es \in SeqsUpTo(ElementPool, MaxElements), b \in Bodies}

---------------------------------------------------------------------------
(* scrape_pool *)

WAIT_MODES == <<"networkidle", "domcontentloaded">>
TABLE_KEYWORDS == { <<"s","w","i","m">>, <<"l","a","n","e">>,
                    <<"a","q","u","a","f","i","t">> }
\* candidates[:3]
MaxTried == 3

\* line 204: "Public Swim" in html
HtmlHasPublicSwim(pg) == Contains(W_PublicSwim, Html(pg))

\* lines 214-220: the sessions of the tables that pass the keyword test
RECURSIVE TableSessions(_)
TableSessions(tbs) ==
    IF tbs = <<>> THEN <<>>
    ELSE (IF \E k \in TABLE_KEYWORDS : Contains(k, Lower(TableText(Head(tbs))))
          THEN parse_from_table(TableCells(Head(tbs)))
          ELSE <<>>)
         \o TableSessions(Tail(tbs))

\* a scrape that goes on to the containers whatever the tables gave
AfterTables_NoReturn(s) == "divs"

\* lines 222-223: tables that gave sessions end the scrape
AfterTables(s) == IF s # <<>> THEN "return" ELSE "divs"

\* lines 227-239: the candidates, in the order the loops append them; the
\* selector of the tuple is only printed and is left out
RECURSIVE Collect(_)
Collect(els) ==
    IF els = <<>> THEN <<>>
    ELSE (IF HasKeyword(InnerText(Head(els)))
          THEN <<[el |-> Head(els), length |-> Len(InnerText(Head(els)))]>>
          ELSE <<>>)
         \o Collect(Tail(els))

\* list.sort(key=length), which is stable: c goes after the items of sorted
\* that are no longer than it
RECURSIVE InsertByLength(_, _)
InsertByLength(sorted, c) ==
    IF sorted = <<>> THEN <<c>>
    ELSE IF Head(sorted).length <= c.length
         THEN <<Head(sorted)>> \o InsertByLength(Tail(sorted), c)
         ELSE <<c>> \o sorted

RECURSIVE SortByLength(_)
SortByLength(cs) ==
    IF cs = <<>> THEN <<>>
    ELSE InsertByLength(SortByLength(SubSeq(cs, 1, Len(cs) - 1)), cs[Len(cs)])

\* a loop over every candidate
FirstCandidates_All(cs) == cs

\* candidates[:3]
FirstCandidates(cs) == SubSeq(cs, 1, IF Len(cs) < MaxTried THEN Len(cs) ELSE MaxTried)

PoolInit ==
    /\ pc = "load"
    /\ gen = <<>>
    /\ page = <<>>
    /\ wait_modes = WAIT_MODES
    /\ loaded = FALSE
    /\ sessions = <<>>
    /\ candidates = <<>>
    /\ tried = <<>>
    /\ text_calls = <<>>
    /\ table_ran = FALSE
    /\ table_result = <<>>
    /\ TimeIdle /\ RangeIdle /\ TableIdle /\ TextIdle

\* lines 177-191: one page.goto; it loads a page, times out or fails
Goto ==
    /\ pc = "load"
    /\ wait_modes # <<>>
    /\ \E outcome \in {"ok", "timeout", "error"} :
          \/ /\ outcome = "ok"
             /\ loaded' = TRUE
             /\ page' \in Pages
             /\ wait_modes' = <<>>
             /\ pc' = "check"
          \/ /\ outcome = "timeout"
             /\ wait_modes' = Tail(wait_modes)
             /\ pc' = IF wait_modes' = <<>> THEN "return" ELSE "load"
             /\ UNCHANGED <<loaded, page>>
          \/ /\ outcome = "error"
             /\ wait_modes' = <<>>
             /\ pc' = "return"
             /\ UNCHANGED <<loaded, page>>
    /\ UNCHANGED <<gen, sessions, candidates, tried, text_calls, table_ran,
                   table_result, timeVars, rangeVars, tableVars, textVars>>

\* lines 193-211: the debug file and the sanity check
SanityCheck ==
    /\ pc = "check"
    /\ pc' = IF HtmlHasPublicSwim(page) THEN "tables" ELSE "return"
    /\ UNCHANGED <<gen, poolVars, timeVars, rangeVars, tableVars, textVars>>

\* lines 213-223: strategy 1
TableStrategy ==
    /\ pc = "tables"
    /\ table_result' = TableSessions(page.tables)
    /\ sessions' = sessions \o table_result'
    /\ table_ran' = TRUE
    /\ pc' = AfterTables(sessions')
    /\ UNCHANGED <<gen, page, wait_modes, loaded, candidates, tried, text_calls,
                   timeVars, rangeVars, tableVars, textVars>>

\* lines 225-242: the candidates of strategy 2, sorted
CollectCandidates ==
    /\ pc = "divs"
    /\ candidates' = SortByLength(Collect(page.elements))
    /\ pc' = IF FirstCandidates(candidates') = <<>> THEN "after" ELSE "try"
    /\ UNCHANGED <<gen, page, wait_modes, loaded, sessions, tried, text_calls,
                   table_ran, table_result, timeVars, rangeVars, tableVars, textVars>>

\* lines 243-250: one turn of the loop over candidates[:3]
\* lines 245-250: the text of the candidate c gave the sessions s
TryResult(c, text, s) ==
    /\ tried' = Append(tried, c)
    /\ text_calls' = Append(text_calls, text)
    /\ sessions' = sessions \o s
    /\ pc' = IF s # <<>> \/ Len(tried') = Len(FirstCandidates(candidates))
             THEN "after" ELSE "try"

TryText(c, text) == TryResult(c, text, parse_from_text(text))

TryCandidate ==
    /\ pc = "try"
    /\ TryText(FirstCandidates(candidates)[Len(tried) + 1],
               InnerText(FirstCandidates(candidates)[Len(tried) + 1].el))
    /\ UNCHANGED <<gen, page, wait_modes, loaded, candidates, table_ran,
                   table_result, timeVars, rangeVars, tableVars, textVars>>

\* lines 252-268: strategy 3 when there is still no session, and the return
FullPage ==
    /\ pc = "after"
    /\ IF sessions = <<>>
       THEN /\ text_calls' = Append(text_calls, InnerText(page.body))
            /\ sessions' = sessions \o parse_from_text(text_calls'[Len(text_calls')])
       ELSE UNCHANGED <<text_calls, sessions>>
    /\ pc' = "return"
    /\ UNCHANGED <<gen, page, wait_modes, loaded, candidates, tried, table_ran,
                   table_result, timeVars, rangeVars, tableVars, textVars>>

PoolNext ==
    \/ Goto
    \/ SanityCheck
    \/ TableStrategy
    \/ CollectCandidates
    \/ TryCandidate
    \/ FullPage

SpecPool == PoolInit /\ [][PoolNext]_vars

\* C1: when the tables give a session, parse_from_text is never called and
\* the sessions of the tables are returned; when the tables were tried and
\* gave none, parse_from_text is called before scrape_pool returns
C1_TableShortCircuit ==
    table_ran =>
        /\ table_result # <<>> => (text_calls = <<>> /\ sessions = table_result)
        /\ (table_result = <<>> /\ pc = "return") => text_calls # <<>>

C1_Witness ==
    /\ pc = "return"
    /\ table_result # <<>>
    /\ \E i \in 1..Len(page.elements) : HasKeyword(InnerText(page.elements[i]))

C1_WitnessFallback ==
    /\ pc = "return"
    /\ table_ran
    /\ table_result = <<>>
    /\ Len(text_calls) = 1

\* the sessions of the first of the texts that gives any
RECURSIVE FirstYield(_)
FirstYield(texts) ==
    IF texts = <<>> THEN <<>>
    ELSE IF parse_from_text(Head(texts)) # <<>> THEN parse_from_text(Head(texts))
    ELSE FirstYield(Tail(texts))

\* the container-text attempt: the 3 smallest candidates, smallest first
ContainerAttempt(pg) ==
    FirstYield([k \in 1..Len(FirstCandidates(SortByLength(Collect(pg.elements)))) |->
                   InnerText(FirstCandidates(SortByLength(Collect(pg.elements)))[k].el)])

FirstNonEmpty(a, b, c) == IF a # <<>> THEN a ELSE IF b # <<>> THEN b ELSE c

\* C2: for a loaded page the result is the first non-empty result of the
\* table attempt, the container-text attempt and the full-page fallback
C2_FirstNonEmptyStrategy ==
    (pc = "return" /\ loaded) =>
        sessions = FirstNonEmpty(TableSessions(page.tables), ContainerAttempt(page),
                                 parse_from_text(InnerText(page.body)))

\* the candidates of the page that are shorter than n characters
ShorterCandidates(n) ==
    {i \in 1..Len(page.elements) :
        /\ HasKeyword(InnerText(page.elements[i]))
        /\ Len(InnerText(page.elements[i])) < n}

NumCandidates ==
    Cardinality({i \in 1..Len(page.elements) : HasKeyword(InnerText(page.elements[i]))})

Yields(c) == parse_from_text(InnerText(c.el)) # <<>>

\* the full-page fallback was run
FallbackRan ==
    /\ Len(text_calls) = Len(tried) + 1
    /\ text_calls[Len(text_calls)] = InnerText(page.body)

\* C10: the candidates are tried shortest first, 3 at most, up to the first
\* that gives a session, whose sessions alone are returned; the full-page
\* fallback runs exactly when no tried candidate gave a session
C10_ContainerAttempt ==
    (table_ran /\ table_result = <<>>) =>
        /\ Len(tried) <= 3
        /\ \A k \in 1..Len(tried) :
              /\ HasKeyword(InnerText(tried[k].el))
              /\ Cardinality(ShorterCandidates(Len(InnerText(tried[k].el)))) <= k - 1
              /\ text_calls[k] = InnerText(tried[k].el)
              /\ k < Len(tried) => ~Yields(tried[k])
        /\ pc = "return" =>
              IF tried # <<>> /\ Yields(tried[Len(tried)])
              THEN /\ sessions = parse_from_text(InnerText(tried[Len(tried)].el))
                   /\ Len(text_calls) = Len(tried)
              ELSE /\ Len(tried) = (IF NumCandidates < 3 THEN NumCandidates ELSE 3)
                   /\ FallbackRan

C10_Witness ==
    /\ pc = "return"
    /\ table_ran
    /\ table_result = <<>>
    /\ NumCandidates >= 3
    /\ Len(tried) = 2
    /\ tried[1].length < tried[2].length
    /\ page.elements[1] = tried[2].el
    /\ Yields(tried[2])
    /\ Len(text_calls) = 2

C10_WitnessCap ==
    /\ pc = "return"
    /\ table_ran
    /\ table_result = <<>>
    /\ NumCandidates = 4
    /\ Len(tried) = 3
    /\ \E i \in 1..Len(page.elements) : page.elements[i] = "sched"
    /\ FallbackRan
    /\ sessions # <<>>

=============================================================================
